---- MODULE Spec2Model ----
(***************************************************************************)
(* Model of scripts/fetch_scholar.py: the Fetcher (fetch_profile), the     *)
(* Extractor (parse_metrics) and the command line driver (main).           *)
(*                                                                         *)
(* Text is a sequence of one-character strings, so that strip, replace,    *)
(* lower, int and the regular expression of find_num are computed on       *)
(* characters as the Python code computes them.                            *)
(***************************************************************************)
EXTENDS Integers, Sequences

(***************************************************************************)
(* Bounds of the model.                                                    *)
(***************************************************************************)
MaxRows == 3
MaxStds == 3
MaxTokens == 3

(***************************************************************************)
(* Characters and the str methods used by the code.                        *)
(***************************************************************************)
Digits == {"0", "1", "2", "3", "4", "5", "6", "7", "8", "9"}

DigitComma == Digits \cup {","}

Whitespace == {" ", "\n"}

DigitVal ==
  [c \in Digits |->
     CASE c = "0" -> 0 [] c = "1" -> 1 [] c = "2" -> 2 [] c = "3" -> 3
       [] c = "4" -> 4 [] c = "5" -> 5 [] c = "6" -> 6 [] c = "7" -> 7
       [] c = "8" -> 8 [] c = "9" -> 9]

LowerChar(c) ==
  CASE c = "C" -> "c" [] c = "I" -> "i" [] c = "T" -> "t" [] c = "E" -> "e"
    [] c = "D" -> "d" [] c = "B" -> "b" [] c = "Y" -> "y" [] c = "U" -> "u"
    [] c = "A" -> "a" [] c = "H" -> "h" [] OTHER -> c

Lower(s) == [i \in 1..Len(s) |-> LowerChar(s[i])]

RECURSIVE Strip(_)
Strip(s) ==
  IF s = <<>> THEN s
  ELSE IF Head(s) \in Whitespace THEN Strip(Tail(s))
  ELSE IF s[Len(s)] \in Whitespace THEN Strip(SubSeq(s, 1, Len(s) - 1))
  ELSE s

NotComma(c) == c # ","

RemoveCommas(s) == SelectSeq(s, NotComma)

Contains(s, sub) ==
  \E i \in 1..(Len(s) - Len(sub) + 1) : SubSeq(s, i, i + Len(sub) - 1) = sub

RECURSIVE DecimalValue(_)
DecimalValue(s) ==
  IF s = <<>> THEN 0
  ELSE 10 * DecimalValue(SubSeq(s, 1, Len(s) - 1)) + DigitVal[s[Len(s)]]

\* int(x) of Python on the characters of the model: surrounding whitespace
\* is ignored, what remains must be a non-empty run of digits, anything else
\* raises ValueError.
PyInt(s) ==
  LET t == Strip(s)
  IN IF t # <<>> /\ \A i \in 1..Len(t) : t[i] \in Digits
     THEN [ok |-> TRUE, val |-> DecimalValue(t)]
     ELSE [ok |-> FALSE, val |-> 0]

(***************************************************************************)
(* The literals of the code, as character sequences.                       *)
(***************************************************************************)
Citations == <<"C", "i", "t", "a", "t", "i", "o", "n", "s">>

CitedBy == <<"C", "i", "t", "e", "d", " ", "b", "y">>

HIndex == <<"h", "-", "i", "n", "d", "e", "x">>

HIndexSp == <<"h", " ", "i", "n", "d", "e", "x">>

I10Index == <<"i", "1", "0", "-", "i", "n", "d", "e", "x">>

I10IndexSp == <<"i", "1", "0", " ", "i", "n", "d", "e", "x">>

I10 == <<"i", "1", "0">>

Captcha == <<"c", "a", "p", "t", "c", "h", "a">>

UnusualTraffic == <<"u", "n", "u", "s", "u", "a", "l", " ", "t", "r", "a", "f", "f", "i", "c">>

SystemsDetected == <<"o", "u", "r", " ", "s", "y", "s", "t", "e", "m", "s", " ", "h", "a", "v", "e", " ", "d", "e", "t", "e", "c", "t", "e", "d">>

BlockPhrases == {UnusualTraffic, SystemsDetected, Captcha}

CitationLabels == <<Citations, CitedBy>>

HIndexLabels == <<HIndex, HIndexSp>>

I10Labels == <<I10Index, I10IndexSp, I10>>

(***************************************************************************)
(* A page.  table is NoTable when the document has no element              *)
(* <table id="gsc_rsb_st">, otherwise <<rows>>, rows being the sequence of *)
(* its <tr> rows, each the sequence of the texts of its <td> cells.  stds  *)
(* is the sequence of the texts of the elements of class gsc_rsb_std, in   *)
(* document order.  text is the free text of the page, a sequence of       *)
(* words.                                                                  *)
(***************************************************************************)
NoTable == <<>>

Table(rows) == <<rows>>

RECURSIVE Join(_, _)
Join(parts, sep) ==
  IF parts = <<>> THEN <<>>
  ELSE IF Len(parts) = 1 THEN parts[1]
  ELSE parts[1] \o sep \o Join(Tail(parts), sep)

RECURSIVE Concat(_)
Concat(parts) ==
  IF parts = <<>> THEN <<>> ELSE Head(parts) \o Concat(Tail(parts))

Tag(s) == <<"<">> \o s \o <<">">>

TableCells(page) ==
  IF page.table = NoTable THEN <<>> ELSE Concat(page.table[1])

\* The raw content (r.text, the html argument): the words of the free text
\* separated by blanks, then the markup of the table cells and of the
\* class-marked elements.
Html(page) ==
  Join(page.text, <<" ">>)
    \o Concat([i \in 1..Len(TableCells(page)) |-> Tag(TableCells(page)[i])])
    \o Concat([i \in 1..Len(page.stds) |-> Tag(page.stds[i])])

\* soup.get_text(separator=' '): the text nodes, without markup.
GetText(page) ==
  Join(page.text \o TableCells(page) \o page.stds, <<" ">>)

HasBlockPhrase(text) == \E ph \in BlockPhrases : Contains(text, ph)

(***************************************************************************)
(* parse_metrics.  An outcome is the returned triple or the exception      *)
(* that leaves the function.                                               *)
(***************************************************************************)
Metrics(c, h, i) == [kind |-> "Metrics", vals |-> <<c, h, i>>]

Raise(kind) == [kind |-> kind, vals |-> <<>>]

\* val_from_row(i) with the 0-based i of the code: rows[i], its tds[1],
\* strip, replace, int.
val_from_row(rows, i) ==
  IF i + 1 > Len(rows) THEN Raise("IndexError")
  ELSE LET tds == rows[i + 1]
       IN IF Len(tds) < 2 THEN Raise("IndexError")
          ELSE LET n == PyInt(RemoveCommas(Strip(tds[2])))
               IN IF n.ok THEN [kind |-> "Value", vals |-> <<n.val>>]
                  ELSE Raise("InvalidLiteral")

\* Mutant of TableStrategy: rows 1 and 2 are read in the wrong order.
TableStrategySwapped(rows) ==
  LET citations == val_from_row(rows, 0)
      hindex == val_from_row(rows, 2)
      i10 == val_from_row(rows, 1)
  IN IF citations.kind # "Value" THEN citations
     ELSE IF hindex.kind # "Value" THEN hindex
     ELSE IF i10.kind # "Value" THEN i10
     ELSE Metrics(citations.vals[1], hindex.vals[1], i10.vals[1])

TableStrategy(rows) ==
  LET citations == val_from_row(rows, 0)
      hindex == val_from_row(rows, 1)
      i10 == val_from_row(rows, 2)
  IN IF citations.kind # "Value" THEN citations
     ELSE IF hindex.kind # "Value" THEN hindex
     ELSE IF i10.kind # "Value" THEN i10
     ELSE Metrics(citations.vals[1], hindex.vals[1], i10.vals[1])

\* The fallback on the class-marked elements: at least three of them, the
\* first three parsed; an exception of int is swallowed (None here).
None == [kind |-> "None", vals |-> <<>>]

ClassMarkerStrategy(stds) ==
  IF Len(stds) >= 3
  THEN LET vals == [i \in 1..3 |-> PyInt(RemoveCommas(Strip(stds[i])))]
       IN IF \A i \in 1..3 : vals[i].ok
          THEN Metrics(vals[1].val, vals[2].val, vals[3].val)
          ELSE None
  ELSE None

\* re.search(label + '[^0-9\n]*([0-9,]+)', html, re.I): the positions where
\* the group can start after a label that ends before j, i.e. after a run
\* of characters that are neither digits nor newlines.
GroupStarts(html, j) ==
  {g \in j..Len(html) :
     /\ html[g] \in DigitComma
     /\ \A m \in j..(g - 1) : html[m] \notin (Digits \cup {"\n"})}

SetMin(S) == CHOOSE x \in S : \A y \in S : x <= y

SetMax(S) == CHOOSE x \in S : \A y \in S : x >= y

\* The longest run of [0-9,] that starts at g.
GroupAt(html, g) ==
  LET e == SetMax({k \in g..Len(html) : \A m \in g..k : html[m] \in DigitComma})
  IN SubSeq(html, g, e)

\* The text of group 1 of the leftmost match, the skipped run being greedy,
\* or NoMatch.
NoMatch == <<"no match">>

ReSearch(label, html) ==
  LET low == Lower(html)
      lab == Lower(label)
      starts == {i \in 1..(Len(html) - Len(lab) + 1) :
                   /\ SubSeq(low, i, i + Len(lab) - 1) = lab
                   /\ GroupStarts(html, i + Len(lab)) # {}}
  IN IF starts = {} THEN NoMatch
     ELSE GroupAt(html, SetMax(GroupStarts(html, SetMin(starts) + Len(lab))))

RECURSIVE find_num(_, _)
find_num(label_variants, html) ==
  IF label_variants = <<>> THEN None
  ELSE LET m == ReSearch(Head(label_variants), html)
       IN IF m = NoMatch THEN find_num(Tail(label_variants), html)
          ELSE LET n == PyInt(RemoveCommas(m))
               IN IF n.ok THEN [kind |-> "Value", vals |-> <<n.val>>]
                  ELSE Raise("InvalidLiteral")

RegexStrategy(html) ==
  LET citations == find_num(CitationLabels, html)
      hindex == find_num(HIndexLabels, html)
      i10 == find_num(I10Labels, html)
  IN IF citations.kind = "InvalidLiteral" THEN citations
     ELSE IF hindex.kind = "InvalidLiteral" THEN hindex
     ELSE IF i10.kind = "InvalidLiteral" THEN i10
     ELSE IF citations.kind = "Value" /\ hindex.kind = "Value" /\ i10.kind = "Value"
     THEN Metrics(citations.vals[1], hindex.vals[1], i10.vals[1])
     ELSE Raise("MetricsNotFound")

\* Mutant of BlockDetection: the text is not lower-cased before the search.
BlockDetectionCaseSensitive(page) == HasBlockPhrase(GetText(page))

BlockDetection(page) == HasBlockPhrase(Lower(GetText(page)))

parse_metrics(page) ==
  IF page.table # NoTable THEN TableStrategy(page.table[1])
  ELSE IF ClassMarkerStrategy(page.stds).kind = "Metrics"
  THEN ClassMarkerStrategy(page.stds)
  ELSE IF BlockDetection(page) THEN Raise("Blocked")
  ELSE RegexStrategy(Html(page))

(***************************************************************************)
(* The pages the model draws its inputs from.                              *)
(***************************************************************************)
SeqsUpTo(S, n) == UNION {[1..k -> S] : k \in 0..n}

LabelCell == <<"x">>

CellTexts ==
  { <<"1", ",", "2", "3", "4">>, <<"5", "6">>, <<"7">>, <<"x">>,
    <<" ", "5", " ">>, <<>> }

RowKinds == {<<>>, <<LabelCell>>} \cup {<<LabelCell, c>> : c \in CellTexts}

Tables == {Table(rows) : rows \in SeqsUpTo(RowKinds, MaxRows)}

StdTexts ==
  { <<"5", "0", "0">>, <<"1", "0">>, <<"3">>, <<"1", ",", "2", "3", "4">>,
    <<"x">> }

StdSeqs == SeqsUpTo(StdTexts, MaxStds)

ThreeStds == << <<"5", "0", "0">>, <<"1", "0">>, <<"3">> >>

Words ==
  { Citations, <<"C", "I", "T", "E", "D", " ", "B", "Y">>, HIndex, I10Index,
    <<"4", "2">>, <<",">>, <<"\n">>,
    <<"U", "n", "u", "s", "u", "a", "l", " ", "t", "r", "a", "f", "f", "i", "c">> }

Texts == SeqsUpTo(Words, MaxTokens)

BlockText ==
  << <<"U", "n", "u", "s", "u", "a", "l", " ", "t", "r", "a", "f", "f", "i", "c">>,
     <<"f", "r", "o", "m">> >>

ExampleText == <<Citations, <<"4", "2">>, HIndex, <<"5">>, I10Index, <<"2">> >>

FewTexts == {<<>>, BlockText, ExampleText, BlockText \o ExampleText}

Pages ==
  {[table |-> t, stds |-> s, text |-> x] :
     t \in Tables, s \in {<<>>, ThreeStds}, x \in {<<>>, BlockText \o ExampleText}}
  \cup {[table |-> NoTable, stds |-> s, text |-> x] :
          s \in StdSeqs, x \in FewTexts}
  \cup {[table |-> NoTable, stds |-> <<>>, text |-> x] : x \in Texts}

GoodPage ==
  [table |-> Table(<< <<LabelCell, <<"1", ",", "2", "3", "4">> >>,
                      <<LabelCell, <<"5", "6">> >>,
                      <<LabelCell, <<"7">> >> >>),
   stds |-> <<>>, text |-> <<>>]

ChallengePage == [table |-> NoTable, stds |-> <<>>, text |-> BlockText]

EmptyPage == [table |-> NoTable, stds |-> <<>>, text |-> <<>>]

ShortTablePage ==
  [table |-> Table(<< <<LabelCell, <<"7">> >> >>), stds |-> ThreeStds,
   text |-> <<>>]

Bodies == {GoodPage, ChallengePage, EmptyPage, ShortTablePage}

(***************************************************************************)
(* The transport: what one HTTP attempt can answer.  A connection-level    *)
(* error has kind "error"; a response carries its status, whether it has   *)
(* a Retry-After header, and its body.                                     *)
(***************************************************************************)
Resp(st, ra, b) ==
  [kind |-> "response", status |-> st, retry_after |-> ra, body |-> b]

ConnError ==
  [kind |-> "error", status |-> 0, retry_after |-> FALSE, body |-> EmptyPage]

NoResponse ==
  [kind |-> "none", status |-> 0, retry_after |-> FALSE, body |-> EmptyPage]

Answers ==
  {Resp(200, FALSE, b) : b \in Bodies}
  \cup {Resp(403, FALSE, EmptyPage), Resp(404, FALSE, EmptyPage),
        Resp(404, FALSE, ChallengePage), Resp(413, FALSE, EmptyPage),
        Resp(413, TRUE, EmptyPage), Resp(429, TRUE, ChallengePage),
        Resp(503, FALSE, EmptyPage), Resp(503, FALSE, ChallengePage),
        ConnError}

UserIds == {<<>>, <<"u", "i", "d">>}

OutputDirs == {<<>>, <<"a", "s", "s", "e", "t", "s">>}

\* html, output_file and debug_file hold <<>> or <<their content>>.
Unbound == <<>>

Untouched == <<>>

Absent == <<>>

NoResult == [kind |-> "NoResult", vals |-> <<>>]

VARIABLES
  entry,        \* the function that was called: main, fetch_profile, parse_metrics
  pc,           \* where the call is
  user,         \* args.user / user_id
  save_debug,   \* args.save_debug
  output_dir,   \* os.path.dirname(args.output)
  fs_fault,     \* the filesystem refuses to open a file for writing
  total,        \* Retry.total that is left
  attempts,     \* requests that were sent
  log,          \* what the transport answered, attempt by attempt
  r,            \* the response session.get returned
  html,         \* the local html of main, the html argument of parse_metrics
  result,       \* what the last call returned or raised
  exit_code,    \* the exit status of the process, -1 while it runs
  output_file,  \* args.output
  debug_file,   \* args.output + '.debug.html'
  stderr        \* the messages printed to sys.stderr

vars ==
  << entry, pc, user, save_debug, output_dir, fs_fault, total, attempts, log,
     r, html, result, exit_code, output_file, debug_file, stderr >>

(***************************************************************************)
(* fetch_profile                                                           *)
(***************************************************************************)
retries == 3

status_forcelist == {429, 500, 502, 503, 504}

\* urllib3's Retry.RETRY_AFTER_STATUS_CODES, used because the Retry of the
\* code keeps the default respect_retry_after_header=True.
RETRY_AFTER_STATUS_CODES == {413, 429, 503}

is_retry(tot, resp) ==
  \/ resp.status \in status_forcelist
  \/ /\ tot # 0
     /\ resp.retry_after
     /\ resp.status \in RETRY_AFTER_STATUS_CODES

\* Mutant of is_exhausted: the last retry is not granted.
is_exhausted_early(tot) == tot <= 0

is_exhausted(tot) == tot < 0

\* The attempt is answered by a connection error or by a response that
\* Retry wants retried.
Retryable(tot, resp) ==
  resp.kind = "error" \/ (resp.kind = "response" /\ is_retry(tot, resp))

\* Mutant of FetchUserEmpty: the identifier is not validated.
FetchUserEmptyUnchecked(user_id) == FALSE

FetchUserEmpty(user_id) == user_id = <<>>

IsBlocked(resp) ==
  resp.status = 403 \/ HasBlockPhrase(Lower(Html(resp.body)))

\* r.raise_for_status()
RaisesForStatus(resp) == resp.status >= 400 /\ resp.status < 600

AfterRaise == IF entry = "main" THEN "except" ELSE "raised"

FetchEmptyUser ==
  /\ pc = "fetch_profile"
  /\ FetchUserEmpty(user)
  /\ result' = Raise("EmptyUserId")
  /\ pc' = AfterRaise
  /\ UNCHANGED << entry, user, save_debug, output_dir, fs_fault, total,
                  attempts, log, r, html, exit_code, output_file,
                  debug_file, stderr >>

FetchMountSession ==
  /\ pc = "fetch_profile"
  /\ ~FetchUserEmpty(user)
  /\ total' = retries
  /\ pc' = "get"
  /\ UNCHANGED << entry, user, save_debug, output_dir, fs_fault, attempts,
                  log, r, html, result, exit_code, output_file, debug_file,
                  stderr >>

\* One attempt of session.get that Retry answers with another attempt.
SendRetry ==
  /\ pc = "get"
  /\ \E resp \in Answers :
       /\ Retryable(total, resp)
       /\ ~is_exhausted(total - 1)
       /\ log' = Append(log, resp)
  /\ attempts' = attempts + 1
  /\ total' = total - 1
  /\ UNCHANGED << entry, pc, user, save_debug, output_dir, fs_fault, r, html,
                  result, exit_code, output_file, debug_file, stderr >>

\* The attempt that uses up the retries: urllib3 raises MaxRetryError
\* (raise_on_status is left True), requests raises a RequestException and
\* the except clause of the code turns it into the network ValueError.
SendExhausted ==
  /\ pc = "get"
  /\ \E resp \in Answers :
       /\ Retryable(total, resp)
       /\ is_exhausted(total - 1)
       /\ log' = Append(log, resp)
  /\ attempts' = attempts + 1
  /\ total' = total - 1
  /\ result' = Raise("NetworkError")
  /\ pc' = AfterRaise
  /\ UNCHANGED << entry, user, save_debug, output_dir, fs_fault, r, html,
                  exit_code, output_file, debug_file, stderr >>

\* The attempt whose response session.get returns.
SendResponse ==
  /\ pc = "get"
  /\ \E resp \in Answers :
       /\ resp.kind = "response"
       /\ ~is_retry(total, resp)
       /\ log' = Append(log, resp)
       /\ r' = resp
  /\ attempts' = attempts + 1
  /\ pc' = "check"
  /\ UNCHANGED << entry, user, save_debug, output_dir, fs_fault, total, html,
                  result, exit_code, output_file, debug_file, stderr >>

FetchBlocked ==
  /\ pc = "check"
  /\ IsBlocked(r)
  /\ result' = [kind |-> "AccessBlocked", vals |-> <<r.status>>]
  /\ pc' = AfterRaise
  /\ UNCHANGED << entry, user, save_debug, output_dir, fs_fault, total,
                  attempts, log, r, html, exit_code, output_file,
                  debug_file, stderr >>

FetchHttpError ==
  /\ pc = "check"
  /\ ~IsBlocked(r)
  /\ RaisesForStatus(r)
  /\ result' = [kind |-> "HTTPError", vals |-> <<r.status>>]
  /\ pc' = AfterRaise
  /\ UNCHANGED << entry, user, save_debug, output_dir, fs_fault, total,
                  attempts, log, r, html, exit_code, output_file,
                  debug_file, stderr >>

FetchReturns ==
  /\ pc = "check"
  /\ ~IsBlocked(r)
  /\ ~RaisesForStatus(r)
  /\ html' = <<r.body>>
  /\ result' = [kind |-> "Fetched", vals |-> <<>>]
  /\ pc' = IF entry = "main" THEN "parse" ELSE "returned"
  /\ UNCHANGED << entry, user, save_debug, output_dir, fs_fault, total,
                  attempts, log, r, exit_code, output_file, debug_file,
                  stderr >>

(***************************************************************************)
(* main                                                                    *)
(***************************************************************************)
MainUserEmpty(u) == u = <<>>

\* Mutant of Payload: hindex and i10 are exchanged.
PayloadSwapped(c, h, i, u) ==
  [citations |-> c, hindex |-> i, i10 |-> h, profile |-> <<"user=", u>>]

Payload(c, h, i, u) ==
  [citations |-> c, hindex |-> h, i10 |-> i, profile |-> <<"user=", u>>]

\* 'html' in locals() and args.save_debug
WantsDebug(h, flag) == h # Unbound /\ flag

\* os.makedirs(os.path.dirname(debug_path), exist_ok=True) raises
\* FileNotFoundError for the empty dirname; open() raises when the
\* filesystem refuses.
DebugWriteFails(dir, fault) == dir = <<>> \/ fault

MainEmptyUser ==
  /\ pc = "start"
  /\ entry = "main"
  /\ MainUserEmpty(user)
  /\ stderr' = Append(stderr, "Error: --user argument is empty")
  /\ exit_code' = 2
  /\ pc' = "exit"
  /\ UNCHANGED << entry, user, save_debug, output_dir, fs_fault, total,
                  attempts, log, r, html, result, output_file, debug_file >>

CallFetchProfile ==
  /\ pc = "start"
  /\ entry = "fetch_profile" \/ (entry = "main" /\ ~MainUserEmpty(user))
  /\ pc' = "fetch_profile"
  /\ UNCHANGED << entry, user, save_debug, output_dir, fs_fault, total,
                  attempts, log, r, html, result, exit_code, output_file,
                  debug_file, stderr >>

ParseReturns ==
  /\ pc = "parse"
  /\ parse_metrics(html[1]).kind = "Metrics"
  /\ result' = parse_metrics(html[1])
  /\ pc' = "write"
  /\ UNCHANGED << entry, user, save_debug, output_dir, fs_fault, total,
                  attempts, log, r, html, exit_code, output_file, debug_file,
                  stderr >>

ParseRaises ==
  /\ pc = "parse"
  /\ parse_metrics(html[1]).kind # "Metrics"
  /\ result' = parse_metrics(html[1])
  /\ pc' = "except"
  /\ UNCHANGED << entry, user, save_debug, output_dir, fs_fault, total,
                  attempts, log, r, html, exit_code, output_file, debug_file,
                  stderr >>

\* The except clause when no debug file is asked for or no html is bound.
ExceptNoDebug ==
  /\ pc = "except"
  /\ ~WantsDebug(html, save_debug)
  /\ stderr' = Append(stderr, "Error fetching or parsing")
  /\ exit_code' = 1
  /\ pc' = "exit"
  /\ UNCHANGED << entry, user, save_debug, output_dir, fs_fault, total,
                  attempts, log, r, html, result, output_file, debug_file >>

ExceptDebugWritten ==
  /\ pc = "except"
  /\ WantsDebug(html, save_debug)
  /\ ~DebugWriteFails(output_dir, fs_fault)
  /\ debug_file' = html
  /\ stderr' = stderr \o <<"Wrote debug HTML", "Error fetching or parsing">>
  /\ exit_code' = 1
  /\ pc' = "exit"
  /\ UNCHANGED << entry, user, save_debug, output_dir, fs_fault, total,
                  attempts, log, r, html, result, output_file >>

ExceptDebugFailed ==
  /\ pc = "except"
  /\ WantsDebug(html, save_debug)
  /\ DebugWriteFails(output_dir, fs_fault)
  /\ stderr' = stderr \o <<"Failed writing debug HTML", "Error fetching or parsing">>
  /\ exit_code' = 1
  /\ pc' = "exit"
  /\ UNCHANGED << entry, user, save_debug, output_dir, fs_fault, total,
                  attempts, log, r, html, result, output_file, debug_file >>

WriteOutput ==
  /\ pc = "write"
  /\ ~fs_fault
  /\ output_file' = <<Payload(result.vals[1], result.vals[2], result.vals[3], user)>>
  /\ exit_code' = 0
  /\ pc' = "exit"
  /\ UNCHANGED << entry, user, save_debug, output_dir, fs_fault, total,
                  attempts, log, r, html, result, debug_file, stderr >>

\* open(args.output, 'w') raises: the exception is not caught and the
\* interpreter ends with status 1.
WriteOutputRaises ==
  /\ pc = "write"
  /\ fs_fault
  /\ stderr' = Append(stderr, "Traceback")
  /\ exit_code' = 1
  /\ pc' = "exit"
  /\ UNCHANGED << entry, user, save_debug, output_dir, fs_fault, total,
                  attempts, log, r, html, result, output_file, debug_file >>

(***************************************************************************)
(* The run of the program: main, or fetch_profile called on its own.       *)
(***************************************************************************)
Init ==
  /\ entry \in {"main", "fetch_profile"}
  /\ pc = "start"
  /\ user \in UserIds
  /\ save_debug \in BOOLEAN
  /\ output_dir \in OutputDirs
  /\ fs_fault \in BOOLEAN
  /\ total = retries
  /\ attempts = 0
  /\ log = <<>>
  /\ r = NoResponse
  /\ html = Unbound
  /\ result = NoResult
  /\ exit_code = -1
  /\ output_file = Untouched
  /\ debug_file = Absent
  /\ stderr = <<>>

Next ==
  \/ MainEmptyUser
  \/ CallFetchProfile
  \/ FetchEmptyUser
  \/ FetchMountSession
  \/ SendRetry
  \/ SendExhausted
  \/ SendResponse
  \/ FetchBlocked
  \/ FetchHttpError
  \/ FetchReturns
  \/ ParseReturns
  \/ ParseRaises
  \/ ExceptNoDebug
  \/ ExceptDebugWritten
  \/ ExceptDebugFailed
  \/ WriteOutput
  \/ WriteOutputRaises

Spec == Init /\ [][Next]_vars

(***************************************************************************)
(* parse_metrics applied to a page on its own.                             *)
(***************************************************************************)
ExtractInit ==
  /\ entry = "parse_metrics"
  /\ pc = "extract"
  /\ html \in {<<p>> : p \in Pages}
  /\ user = <<>>
  /\ save_debug = FALSE
  /\ output_dir = <<>>
  /\ fs_fault = FALSE
  /\ total = retries
  /\ attempts = 0
  /\ log = <<>>
  /\ r = NoResponse
  /\ result = NoResult
  /\ exit_code = -1
  /\ output_file = Untouched
  /\ debug_file = Absent
  /\ stderr = <<>>

ExtractReturns ==
  /\ pc = "extract"
  /\ parse_metrics(html[1]).kind = "Metrics"
  /\ result' = parse_metrics(html[1])
  /\ pc' = "returned"
  /\ UNCHANGED << entry, user, save_debug, output_dir, fs_fault, total,
                  attempts, log, r, html, exit_code, output_file, debug_file,
                  stderr >>

ExtractRaises ==
  /\ pc = "extract"
  /\ parse_metrics(html[1]).kind # "Metrics"
  /\ result' = parse_metrics(html[1])
  /\ pc' = "raised"
  /\ UNCHANGED << entry, user, save_debug, output_dir, fs_fault, total,
                  attempts, log, r, html, exit_code, output_file, debug_file,
                  stderr >>

ExtractNext == ExtractReturns \/ ExtractRaises

SpecParse == ExtractInit /\ [][ExtractNext]_vars

(***************************************************************************)
(* Vocabulary of the properties.                                           *)
(***************************************************************************)
IsDigit(c) == c \in Digits

\* A digit string with optional comma separators.
IsDigitString(s) ==
  /\ \A i \in 1..Len(s) : s[i] \in DigitComma
  /\ \E i \in 1..Len(s) : s[i] \in Digits

RECURSIVE FoldDigits(_, _)
FoldDigits(s, acc) ==
  IF s = <<>> THEN acc ELSE FoldDigits(Tail(s), 10 * acc + DigitVal[Head(s)])

\* The integer a digit string denotes once its commas are removed.
NumberOf(s) == FoldDigits(SelectSeq(s, IsDigit), 0)

Parses(s) == PyInt(RemoveCommas(Strip(s))).ok

ClassMarkerFails(stds) ==
  Len(stds) < 3 \/ \E i \in 1..3 : ~Parses(stds[i])

ExtractDone == entry = "parse_metrics" /\ pc \in {"returned", "raised"}

FetchDone == entry = "fetch_profile" /\ pc \in {"returned", "raised"}

LastAnswer == log[Len(log)]

TransientStatuses == {429, 500, 502, 503, 504}

Transient(resp) ==
  resp.kind = "response" /\ resp.status \in TransientStatuses

HasPhrase(resp) == HasBlockPhrase(Lower(Html(resp.body)))

(***************************************************************************)
(* C1 as stated: every page whose visible text contains a blocking phrase  *)
(* makes parse_metrics fail with the block-condition error, whatever else  *)
(* the page contains, a metrics table or class-marked numbers included.    *)
(***************************************************************************)
C1_BlockedRegardless ==
  (ExtractDone /\ HasBlockPhrase(Lower(GetText(html[1]))))
    => result.kind = "Blocked"

\* C1 amended: on a page without the metrics table on which the
\* class-marker strategy does not succeed, a blocking phrase in the visible
\* text makes parse_metrics fail with the block-condition error, whatever
\* label text the page contains; and the block-condition error is raised
\* for no other page.
C1_BlockedAfterStructured ==
  ExtractDone =>
    /\ ( /\ html[1].table = NoTable
         /\ ClassMarkerFails(html[1].stds)
         /\ HasBlockPhrase(Lower(GetText(html[1]))) )
       => result.kind = "Blocked"
    /\ result.kind = "Blocked"
       => /\ html[1].table = NoTable
          /\ HasBlockPhrase(Lower(GetText(html[1])))

C1_Witness ==
  /\ ExtractDone
  /\ html[1].table = NoTable
  /\ Len(html[1].stds) >= 3
  /\ html[1].text = BlockText \o ExampleText
  /\ result.kind = "Blocked"

(***************************************************************************)
(* C2 as stated: when the table strategy does not yield three integers     *)
(* (too few rows, too few cells, a non-numeric cell) extraction does not   *)
(* fail at the table step but goes on to the class-marker strategy, so     *)
(* three numeric class-marked elements are returned.                       *)
(***************************************************************************)
C2_FallsBackFromTable ==
  ( /\ ExtractDone
    /\ html[1].table # NoTable
    /\ \/ Len(html[1].table[1]) < 3
       \/ \E i \in 1..3 :
            \/ Len(html[1].table[1][i]) < 2
            \/ ~Parses(html[1].table[1][i][2]) )
  => /\ result.kind # "IndexError"
     /\ ( /\ Len(html[1].stds) >= 3
          /\ \A i \in 1..3 : IsDigitString(html[1].stds[i]) )
        => result = Metrics(NumberOf(html[1].stds[1]),
                            NumberOf(html[1].stds[2]),
                            NumberOf(html[1].stds[3]))

(***************************************************************************)
(* C9: a table whose rows 0, 1 and 2 have a digit string (commas allowed)  *)
(* as second cell yields the integers of these rows in that order, commas  *)
(* removed, whatever the class-marked elements and the text of the page.   *)
(***************************************************************************)
C9_TableInRowOrder ==
  ( /\ ExtractDone
    /\ html[1].table # NoTable
    /\ Len(html[1].table[1]) >= 3
    /\ \A i \in 1..3 :
         /\ Len(html[1].table[1][i]) >= 2
         /\ IsDigitString(html[1].table[1][i][2]) )
  => result = Metrics(NumberOf(html[1].table[1][1][2]),
                      NumberOf(html[1].table[1][2][2]),
                      NumberOf(html[1].table[1][3][2]))

C9_Witness ==
  /\ ExtractDone
  /\ html[1].table = GoodPage.table
  /\ html[1].stds = ThreeStds
  /\ html[1].text = BlockText \o ExampleText
  /\ result = Metrics(1234, 56, 7)

(***************************************************************************)
(* C10 as stated: without table, without a successful class-marker         *)
(* strategy and without blocking phrase, parse_metrics returns metrics     *)
(* exactly when all three labels are recovered and otherwise fails with    *)
(* the 'metrics not found' error.                                          *)
(***************************************************************************)
C10_AllThreeOrNotFound ==
  ( /\ ExtractDone
    /\ html[1].table = NoTable
    /\ ClassMarkerFails(html[1].stds)
    /\ ~HasBlockPhrase(Lower(GetText(html[1]))) )
  => /\ result.kind \in {"Metrics", "MetricsNotFound"}
     /\ result.kind = "Metrics"
        <=> /\ find_num(CitationLabels, Html(html[1])).kind = "Value"
            /\ find_num(HIndexLabels, Html(html[1])).kind = "Value"
            /\ find_num(I10Labels, Html(html[1])).kind = "Value"

(***************************************************************************)
(* C3: with an empty identifier no request is ever sent and no file is     *)
(* written; main ends with exit code 2 and fetch_profile called on its own *)
(* raises the validation error.                                            *)
(***************************************************************************)
C3_EmptyUserNoRequest ==
  user = <<>> =>
    /\ attempts = 0
    /\ log = <<>>
    /\ pc \notin {"get", "check", "parse", "write", "except"} \/ entry # "main"
    /\ pc \notin {"get", "check"}
    /\ output_file = Untouched
    /\ debug_file = Absent
    /\ exit_code \in {-1, 2}
    /\ (entry = "main" /\ pc = "exit") => exit_code = 2
    /\ FetchDone => result.kind = "EmptyUserId"

C3_Witness ==
  /\ user = <<>>
  /\ entry = "main"
  /\ pc = "exit"
  /\ exit_code = 2
  /\ attempts = 0

(***************************************************************************)
(* The retry behaviour C4 is about: k transient answers (k <= retries)     *)
(* followed by a clean 200 give Success after exactly k+1 attempts, the    *)
(* fetcher does not stop earlier, and there are never more than retries+1  *)
(* attempts.                                                               *)
(***************************************************************************)
RetriesThenSuccess ==
  /\ ( /\ FetchDone
       /\ log # <<>>
       /\ Len(log) - 1 <= retries
       /\ \A i \in 1..(Len(log) - 1) : Transient(log[i])
       /\ LastAnswer.kind = "response"
       /\ LastAnswer.status = 200
       /\ ~HasPhrase(LastAnswer) )
     => (pc = "returned" /\ result.kind = "Fetched" /\ attempts = Len(log))
  \* the fetcher does not give up while retries are left
  /\ ( /\ pc \notin {"start", "fetch_profile", "get"}
       /\ log # <<>>
       /\ \A i \in 1..Len(log) : Transient(log[i]) )
     => attempts = retries + 1
  /\ attempts <= retries + 1

C5_HttpErrorCarriesStatus ==
  ( /\ FetchDone
    /\ log # <<>>
    /\ \A i \in 1..Len(log) : log[i] = LastAnswer
    /\ LastAnswer.kind = "response"
    /\ (LastAnswer.status < 200 \/ LastAnswer.status >= 300)
    /\ LastAnswer.status # 403
    /\ ~HasPhrase(LastAnswer) )
  => result = [kind |-> "HTTPError", vals |-> <<LastAnswer.status>>]

(***************************************************************************)
(* C6 as stated: when the last answer of the server has status 403 or a    *)
(* body with a blocking phrase, fetch_profile fails with the block         *)
(* condition, whatever the status of that answer.                          *)
(***************************************************************************)
C6_BlockAlwaysReported ==
  ( /\ FetchDone
    /\ log # <<>>
    /\ LastAnswer.kind = "response"
    /\ (LastAnswer.status = 403 \/ HasPhrase(LastAnswer)) )
  => result.kind = "AccessBlocked"

C8_DebugSaved ==
  (entry = "main" /\ pc = "exit" /\ result.kind \notin {"Metrics", "NoResult"})
  => /\ (save_debug /\ r.kind = "response" /\ ~fs_fault)
          => debug_file = <<r.body>>
     /\ (~save_debug \/ r.kind # "response") => debug_file = Absent
     /\ exit_code = 1
     /\ stderr[Len(stderr)] = "Error fetching or parsing"

====
